---- MODULE Spec2Model ----
(***************************************************************************)
(* Order conversation of the acai delivery bot.                            *)
(*                                                                         *)
(* One customer in one chat.  The state is the stage of the ORDER_FLOW     *)
(* ConversationHandler, the stage of the PAYMENT_FLOW ConversationHandler, *)
(* the customer's context.user_data dictionary, the two profile stores the *)
(* bot writes (Supabase users table, data/users.json) and the outcome of   *)
(* the last handler (message sent, inline keyboard, order record written). *)
(*                                                                         *)
(* The datastore's menu setting and delivery directory are external: every *)
(* read draws its result from a bounded set of values.  Money is kept in   *)
(* cents.  The messaging transport delivers every message the bot sends.   *)
(***************************************************************************)
EXTENDS Integers, Sequences, FiniteSets, TLC

\* ---------------------------------------------------------------- bounds
MaxCart == 2
MaxQty == 2
MaxSessions == 2
MaxClock == 2

\* ------------------------------------------------------ program constants
QtyButtons == 5
FloorPrice == 800
MinNameLen == 2
MinPhoneLen == 8

ORDER_BUTTON_TEXT == "Order Now"
HELP_BUTTON_TEXT == "Help"
START_OVER_BUTTON_TEXT == "Start Over"
SHOW_MENU_BUTTON_TEXT == "Show Menu"
SHOW_DELIVERIES_BUTTON_TEXT == "Show Deliveries"
RESTART_ORDER_BUTTON_TEXT == "Restart Order"
CANCEL_ORDER_BUTTON_TEXT == "Cancel Order"

\* Conversation states of ORDER_FLOW; END is ConversationHandler.END (idle).
END == "END"
SELECT_DELIVERY == "SELECT_DELIVERY"
REGISTER_NAME == "REGISTER_NAME"
REGISTER_PHONE == "REGISTER_PHONE"
MENU_SELECTION == "MENU_SELECTION"
QUANTITY == "QUANTITY"
ADD_MORE_ITEMS == "ADD_MORE_ITEMS"
CONFIRM == "CONFIRM"
PAYMENT == "PAYMENT"
\* The one state of PAYMENT_FLOW.
AWAITING_SCREENSHOT == "AWAITING_SCREENSHOT"

\* ------------------------------------------------------------- values
\* An option, and every value derived from one, is a plain label (a Python
\* str) or a priced dict {name, price}.
Plain(s) == [kind |-> "str", name |-> s, price |-> 0]
Priced(s, p) == [kind |-> "dict", name |-> s, price |-> p]
NoValue == [kind |-> "none", name |-> "", price |-> 0]

\* str(value) as an f-string renders it.
Render(v) ==
    IF v.kind = "dict"
    THEN "{name: " \o v.name \o ", price: " \o ToString(v.price) \o "}"
    ELSE v.name

RECURSIVE Join(_, _)
Join(parts, sep) ==
    IF parts = <<>> THEN ""
    ELSE IF Len(parts) = 1 THEN parts[1]
    ELSE parts[1] \o sep \o Join(Tail(parts), sep)

RECURSIVE SumOver(_, _)
SumOver(items, field) ==
    IF items = <<>> THEN 0 ELSE items[1][field] + SumOver(Tail(items), field)

Min(a, b) == IF a < b THEN a ELSE b

\* ---------------------------------------------------------- menu provider
Group(t, opts) == [title |-> t, options |-> opts]

\* Values of the datastore's menu_groups setting that a read can return.
MenuTwo ==
    << Group("Flavor", << Plain("Classic"), Priced("Protein", 900) >>),
       Group("Sauce", << Plain("Honey") >>) >>
MenuNoOptions == << Group("Flavor", << >>) >>
RawMenus == {MenuTwo, MenuNoOptions}

FallbackGroups == << Group("Menu Flavors", << Priced("Classic Acai", FloorPrice) >>) >>

\* get_menu_data: groups without options are dropped; nothing left gives the
\* single-group default.  The result has the key "groups" only.
get_menu_data(raw) ==
    LET kept == SelectSeq(raw, LAMBDA g : g.options # << >>)
    IN  [groups |-> IF kept = << >> THEN FallbackGroups ELSE kept]

\* ------------------------------------------------------- user_data dict
NoDelivery == [id |-> 0]
NoProfile == [name |-> "", handle |-> "", phone |-> ""]
EmptyMap == [i \in {} |-> NoValue]

\* context.user_data after clear(): no key; absent fields hold a fixed filler.
EmptyUD ==
    [keys |-> {},
     menu_groups |-> << >>, delivery |-> NoDelivery, user_info |-> NoProfile,
     name |-> "", menu_index |-> 0, menu_choices |-> EmptyMap,
     menu_selections |-> << >>, main_option_price |-> 0,
     flavor |-> NoValue, sauce |-> NoValue, cart |-> << >>,
     total_price |-> 0, total_quantity |-> 0, order_id |-> 0]

Has(d, k) == k \in d.keys
Get(d, k, dflt) == IF Has(d, k) THEN d[k] ELSE dflt
Put(d, k, v) == [d EXCEPT ![k] = v, !.keys = @ \cup {k}]
\* Keys whose value the flow never reads back.
Mark(d, k) == [d EXCEPT !.keys = @ \cup {k}]
MapPut(m, k, v) == [i \in DOMAIN m \cup {k} |-> IF i = k THEN v ELSE m[i]]

\* ------------------------------------------------------------ buttons
Btn(t, a, b) == [t |-> t, a |-> a, b |-> b]
CancelBtn == Btn("cancel", 0, 0)
DeliveryBtn(id) == Btn("delivery", id, 0)
MenuBtn(g, o) == Btn("menu", g, o)
QtyBtn(q) == Btn("qty", q, 0)

SessionIds == 1 .. MaxSessions
Quantities == 1 .. Min(MaxQty, QtyButtons)
ClockValues == 1 .. MaxClock

\* Every menu button issued for some menu the provider can return.
MenuButtons ==
    UNION {UNION {{MenuBtn(g - 1, o - 1) : o \in 1 .. Len(get_menu_data(m).groups[g].options)}
                  : g \in 1 .. Len(get_menu_data(m).groups)}
           : m \in RawMenus}

\* Callback data of every inline button the chat can still hold.
AllButtons ==
    {CancelBtn, Btn("add_more", 0, 0), Btn("proceed_payment", 0, 0),
     Btn("confirm", 0, 0)}
    \cup {DeliveryBtn(i) : i \in SessionIds}
    \cup MenuButtons
    \cup {QtyBtn(q) : q \in Quantities}

\* What the last handler did: the message it sent, the inline keyboard under
\* it and the delivery order it inserted, if any.
NoOrder == [order_id |-> -1]
NoOut == [msg |-> "none", kb |-> << >>, order |-> NoOrder]
Say(m) == [msg |-> m, kb |-> << >>, order |-> NoOrder]
\* A message that quotes the order id.
SayRef(m, id) == [msg |-> m, kb |-> << >>, order |-> [order_id |-> id]]
Ask(m, kb) == [msg |-> m, kb |-> kb, order |-> NoOrder]

\* picked is history: the option the customer chose for group 0 in the pass
\* through the menu that is under way (NoValue when there is none).
VARIABLES stage, payStage, ud, supaUser, localUser, out, picked

vars == <<stage, payStage, ud, supaUser, localUser, out, picked>>
stores == <<supaUser, localUser>>

\* What a handler leaves behind: the dictionary, the state it returns and
\* the message it sent.
Res(d, s, o) == [ud |-> d, stage |-> s, out |-> o]

\* ------------------------------------------------------- menu helpers
cache_menu_data(d, raw) ==
    Mark(Put(d, "menu_groups", get_menu_data(raw).groups), "menu_pricing")

\* The reload branch reads the key "menu_groups" of a menu that only has
\* the key "groups", and caches the empty list it gets.
get_menu_groups(d, raw) ==
    IF Get(d, "menu_groups", << >>) # << >>
    THEN [ud |-> d, groups |-> d.menu_groups]
    ELSE [ud |-> Put(cache_menu_data(d, raw), "menu_groups", << >>),
          groups |-> << >>]

reset_menu_selection(d) ==
    Put(Put(Put(d, "menu_index", 0), "menu_choices", EmptyMap),
        "menu_selections", << >>)

build_menu_keyboard(group, index) ==
    [o \in 1 .. Len(group.options) |-> MenuBtn(index, o - 1)] \o <<CancelBtn>>

QuantityKeyboard == [i \in 1 .. QtyButtons |-> QtyBtn(i)] \o <<CancelBtn>>

accumulate_menu_selections(d, raw) ==
    LET g == get_menu_groups(d, raw)
        choices == Get(g.ud, "menu_choices", EmptyMap)
        all == [i \in 1 .. Len(g.groups) |->
                   [title |-> g.groups[i].title,
                    value |-> IF (i - 1) \in DOMAIN choices
                              THEN choices[i - 1] ELSE NoValue]]
        selections == SelectSeq(all, LAMBDA s : s.value.kind # "none")
        extras == [i \in 1 .. Len(selections) - 1 |->
                      selections[i + 1].title \o ": "
                          \o Render(selections[i + 1].value)]
        d1 == Put(g.ud, "menu_selections", selections)
    IN  IF selections # << >>
        THEN Put(Put(d1, "flavor", selections[1].value), "sauce",
                 IF extras # << >> THEN Plain(Join(extras, "; "))
                 ELSE selections[1].value)
        ELSE Put(Put(d1, "flavor", Plain("Classic Acai")), "sauce", Plain(""))

\* prompt_menu_option_via_query and _via_message differ only in how the
\* prompt is delivered.
prompt_menu_option(d, raw) ==
    LET g == get_menu_groups(d, raw)
        index == Get(g.ud, "menu_index", 0)
    IN  IF index >= Len(g.groups)
        THEN [ud |-> accumulate_menu_selections(g.ud, raw),
              result |-> "quantity",
              out |-> Ask("select_quantity", QuantityKeyboard)]
        ELSE [ud |-> g.ud, result |-> "menu",
              out |-> Ask("menu_option",
                          build_menu_keyboard(g.groups[index + 1], index))]

start_menu_selection(d, raw) == prompt_menu_option(reset_menu_selection(d), raw)

\* "return QUANTITY if result == 'quantity' else MENU_SELECTION"
MenuRes(p) ==
    Res(p.ud, IF p.result = "quantity" THEN QUANTITY ELSE MENU_SELECTION, p.out)

\* --------------------------------------------------------- order flow
cancel_payment(d) == Res(EmptyUD, END, Say("payment_cancelled"))

\* A variant that never defers to the payment cancellation.
cancel_order_pre_payment(d) ==
    Res(EmptyUD, END, Say("order_cancelled"))

\* A variant whose /cancel is honoured only once an order id is stored;
\* before that it puts the customer back at the session list.
cancel_order_payment_only(d) ==
    IF Has(d, "order_id")
    THEN cancel_payment(d)
    ELSE Res(d, SELECT_DELIVERY, Say("order_cancelled"))

cancel_order(d) ==
    IF Has(d, "order_id")
    THEN cancel_payment(d)
    ELSE Res(EmptyUD, END, Say("order_cancelled"))

\* None when the text is no control keyword.
NoRes == Res(EmptyUD, "none", NoOut)
maybe_handle_control_text(d, text) ==
    IF text = CANCEL_ORDER_BUTTON_TEXT THEN cancel_order(d)
    ELSE IF text = RESTART_ORDER_BUTTON_TEXT
         THEN Res(EmptyUD, END, Say("order_restarted"))
         ELSE NoRes

\* A variant that lists the sessions by id instead of in the directory's
\* order.
start_order_by_id(d, raw, active) ==
    LET d1 == Mark(cache_menu_data(EmptyUD, raw), "order_type")
    IN  IF active = << >>
        THEN Res(d1, END, Say("no_active_sessions"))
        ELSE Res(Mark(d1, "order_message_id"), SELECT_DELIVERY,
                 Ask("select_delivery",
                     [i \in 1 .. Len(active) |-> DeliveryBtn(i)]
                         \o <<CancelBtn>>))

\* A variant that starts from the context it finds instead of an empty one.
start_order_keep_context(d, raw, active) ==
    LET d1 == Mark(cache_menu_data(d, raw), "order_type")
    IN  IF active = << >>
        THEN Res(d1, END, Say("no_active_sessions"))
        ELSE Res(Mark(d1, "order_message_id"), SELECT_DELIVERY,
                 Ask("select_delivery",
                     [i \in 1 .. Len(active) |-> DeliveryBtn(active[i])]
                         \o <<CancelBtn>>))

\* active: the ids of the sessions _load_active_delivery_sessions returned.
start_order(d, raw, active) ==
    LET d1 == Mark(cache_menu_data(EmptyUD, raw), "order_type")
    IN  IF active = << >>
        THEN Res(d1, END, Say("no_active_sessions"))
        ELSE Res(Mark(d1, "order_message_id"), SELECT_DELIVERY,
                 Ask("select_delivery",
                     [i \in 1 .. Len(active) |-> DeliveryBtn(active[i])]
                         \o <<CancelBtn>>))

\* A variant that never looks into users.json.
select_delivery_no_fallback(d, data, row, supa_user, users_json, raw) ==
    IF data = CancelBtn THEN Res(d, END, Say("cancelled_inline"))
    ELSE IF data.t # "delivery" \/ row = "missing"
    THEN Res(d, END, Say("delivery_not_found"))
    ELSE LET d1 == Put(d, "delivery", [id |-> data.a])
         IN  IF supa_user # NoProfile
             THEN MenuRes(start_menu_selection(Put(d1, "user_info", supa_user), raw))
             ELSE Res(d1, REGISTER_NAME, Say("ask_name"))

\* row: what get_delivery_by_id finds for the id in the callback data
\* ("missing" when there is no such row or the query failed).
select_delivery(d, data, row, supa_user, users_json, raw) ==
    IF data = CancelBtn THEN Res(d, END, Say("cancelled_inline"))
    ELSE IF data.t # "delivery" \/ row = "missing"
    THEN Res(d, END, Say("delivery_not_found"))
    ELSE LET d1 == Put(d, "delivery", [id |-> data.a])
         IN  IF supa_user # NoProfile
             THEN MenuRes(start_menu_selection(Put(d1, "user_info", supa_user), raw))
             ELSE IF users_json # NoProfile
             THEN MenuRes(start_menu_selection(Put(d1, "user_info", users_json), raw))
             ELSE Res(d1, REGISTER_NAME, Say("ask_name"))

register_name(d, text) ==
    LET c == maybe_handle_control_text(d, text)
    IN  IF c # NoRes THEN c
        ELSE IF Len(text) < MinNameLen
        THEN Res(d, REGISTER_NAME, Say("invalid_name"))
        ELSE Res(Put(d, "name", text), REGISTER_PHONE, Say("ask_phone"))

Handle == "bobby"
\* A variant that validates the text as a phone number without looking for
\* a control keyword.
register_phone_no_control(d, text, raw) ==
    IF Len(text) < MinPhoneLen
    THEN Res(d, REGISTER_PHONE, Say("invalid_phone"))
    ELSE IF ~Has(d, "name")
    THEN Res(d, REGISTER_PHONE, Say("error"))
    ELSE MenuRes(start_menu_selection(
             Put(d, "user_info",
                 [name |-> d.name, handle |-> Handle, phone |-> text]), raw))

\* The part of register_phone after the profile is built; a missing 'name'
\* raises KeyError and the state stays as it is.
register_phone(d, text, raw) ==
    LET c == maybe_handle_control_text(d, text)
    IN  IF c # NoRes THEN c
        ELSE IF Len(text) < MinPhoneLen
        THEN Res(d, REGISTER_PHONE, Say("invalid_phone"))
        ELSE IF ~Has(d, "name")
        THEN Res(d, REGISTER_PHONE, Say("error"))
        ELSE MenuRes(start_menu_selection(
                 Put(d, "user_info",
                     [name |-> d.name, handle |-> Handle, phone |-> text]), raw))

\* A variant that moves the cursor two groups on.
handle_menu_selection_skip(d, data, raw) ==
    IF data = CancelBtn THEN Res(d, END, Say("cancelled_inline"))
    ELSE IF data.t # "menu" THEN Res(d, MENU_SELECTION, Say("invalid_selection"))
    ELSE LET group_index == data.a
             option_index == data.b
             g == get_menu_groups(d, raw)
         IN  IF group_index >= Len(g.groups)
             THEN Res(g.ud, MENU_SELECTION, Say("option_expired"))
             ELSE IF option_index >= Len(g.groups[group_index + 1].options)
             THEN Res(g.ud, MENU_SELECTION, Say("option_unavailable"))
             ELSE LET selected_option ==
                          g.groups[group_index + 1].options[option_index + 1]
                      d1 == Put(g.ud, "menu_choices",
                                MapPut(Get(g.ud, "menu_choices", EmptyMap),
                                       group_index, selected_option))
                      d3 == Put(d1, "menu_index", group_index + 2)
                  IN  MenuRes(prompt_menu_option(d3, raw))

\* A variant that takes the last option when the option index is too large.
handle_menu_selection_clamp(d, data, raw) ==
    IF data = CancelBtn THEN Res(d, END, Say("cancelled_inline"))
    ELSE IF data.t # "menu" THEN Res(d, MENU_SELECTION, Say("invalid_selection"))
    ELSE LET group_index == data.a
             g == get_menu_groups(d, raw)
         IN  IF group_index >= Len(g.groups)
             THEN Res(g.ud, MENU_SELECTION, Say("option_expired"))
             ELSE LET options == g.groups[group_index + 1].options
                      option_index == Min(data.b, Len(options) - 1)
                      selected_option == options[option_index + 1]
                      d1 == Put(g.ud, "menu_choices",
                                MapPut(Get(g.ud, "menu_choices", EmptyMap),
                                       group_index, selected_option))
                      d2 == IF group_index = 0
                            THEN Put(Put(d1, "main_option_price",
                                         selected_option.price),
                                     "flavor", Plain(selected_option.name))
                            ELSE d1
                      d3 == Put(d2, "menu_index", group_index + 1)
                  IN  MenuRes(prompt_menu_option(d3, raw))

handle_menu_selection(d, data, raw) ==
    IF data = CancelBtn THEN Res(d, END, Say("cancelled_inline"))
    ELSE IF data.t # "menu" THEN Res(d, MENU_SELECTION, Say("invalid_selection"))
    ELSE LET group_index == data.a
             option_index == data.b
             g == get_menu_groups(d, raw)
         IN  IF group_index >= Len(g.groups)
             THEN Res(g.ud, MENU_SELECTION, Say("option_expired"))
             ELSE IF option_index >= Len(g.groups[group_index + 1].options)
             THEN Res(g.ud, MENU_SELECTION, Say("option_unavailable"))
             ELSE LET selected_option ==
                          g.groups[group_index + 1].options[option_index + 1]
                      d1 == Put(g.ud, "menu_choices",
                                MapPut(Get(g.ud, "menu_choices", EmptyMap),
                                       group_index, selected_option))
                      d2 == IF group_index = 0
                            THEN Put(Put(d1, "main_option_price",
                                         selected_option.price),
                                     "flavor", Plain(selected_option.name))
                            ELSE d1
                      d3 == Put(d2, "menu_index", group_index + 1)
                  IN  MenuRes(prompt_menu_option(d3, raw))

\* A variant that keeps the last item's total instead of the sum.
add_item_to_cart_last_only(d, flavor, sauce, quantity, unit_price) ==
    LET item == [flavor |-> flavor, sauce |-> sauce, quantity |-> quantity,
                 unit_price |-> unit_price,
                 item_total |-> quantity * unit_price]
        cart == Append(Get(d, "cart", << >>), item)
    IN  Put(Put(Put(d, "cart", cart),
                "total_price", item.item_total),
            "total_quantity", SumOver(cart, "quantity"))

add_item_to_cart(d, flavor, sauce, quantity, unit_price) ==
    LET item == [flavor |-> flavor, sauce |-> sauce, quantity |-> quantity,
                 unit_price |-> unit_price,
                 item_total |-> quantity * unit_price]
        cart == Append(Get(d, "cart", << >>), item)
    IN  Put(Put(Put(d, "cart", cart),
                "total_price", SumOver(cart, "item_total")),
            "total_quantity", SumOver(cart, "quantity"))

AddMoreKeyboard ==
    <<Btn("add_more", 0, 0), Btn("proceed_payment", 0, 0), CancelBtn>>

prompt_add_more_items(d) == Res(d, ADD_MORE_ITEMS, Ask("cart", AddMoreKeyboard))

\* int() of callback data that is no qty_<n> raises ValueError.
select_quantity(d, data, raw) ==
    IF data = CancelBtn THEN Res(d, END, Say("cancelled_inline"))
    ELSE IF data.t # "qty" THEN Res(d, QUANTITY, Say("error"))
    ELSE LET quantity == data.a
             d1 == IF Has(d, "main_option_price") THEN d
                   ELSE cache_menu_data(d, raw)
             unit_price == Get(d1, "main_option_price", FloorPrice)
             d2 == accumulate_menu_selections(d1, raw)
             flavor == Get(d2, "flavor", Plain("Classic Acai"))
             sauce_text == Get(d2, "sauce", Plain(""))
         IN  prompt_add_more_items(
                 add_item_to_cart(d2, flavor, sauce_text, quantity, unit_price))

show_order_confirmation(d) ==
    Res(d, CONFIRM, Ask("order_summary", <<Btn("confirm", 0, 0), CancelBtn>>))

handle_add_more_items(d, data, raw) ==
    IF data = CancelBtn THEN Res(d, END, Say("cancelled_inline"))
    ELSE IF data.t = "add_more"
    THEN MenuRes(start_menu_selection(
             Put(Put(d, "menu_choices", EmptyMap), "menu_index", 0), raw))
    ELSE IF data.t = "proceed_payment" THEN show_order_confirmation(d)
    ELSE Res(d, ADD_MORE_ITEMS, NoOut)

\* now: the second of the wall clock that generate_delivery_id formats.
generate_delivery_id(now) == now

confirm_order(d, data, now) ==
    IF data = CancelBtn THEN Res(d, END, Say("cancelled_inline"))
    ELSE Res(Put(d, "order_id", generate_delivery_id(now)), PAYMENT,
             Say("payment_required"))

request_payment_screenshot(d, text) ==
    LET c == maybe_handle_control_text(d, text)
    IN  IF c # NoRes THEN c ELSE Res(d, PAYMENT, Say("upload_photo_please"))

UnknownProfile == [name |-> "Unknown", handle |-> "", phone |-> "Unknown"]

\* The profile receive_payment_screenshot passes to create_or_update_user.
payment_profile(d) ==
    LET user_info == Get(d, "user_info", NoProfile)
    IN  IF Has(d, "user_info") THEN user_info ELSE UnknownProfile

\* The record passed to create_delivery_order; order_id 0 is 'unknown'.
order_data(d, screenshot_url) ==
    LET cart == Get(d, "cart", << >>)
        user_info == payment_profile(d)
    IN  [order_id |-> Get(d, "order_id", 0),
         delivery_session_id |-> Get(d, "delivery", NoDelivery).id,
         customer_name |-> user_info.name,
         customer_phone |-> user_info.phone,
         items |-> cart,
         total_quantity |-> IF cart # << >> THEN Get(d, "total_quantity", 0) ELSE 0,
         total_price |-> Get(d, "total_price", 0),
         payment_screenshot_url |-> screenshot_url,
         payment_status |-> "submitted",
         order_status |-> "confirmed",
         flavor |-> IF cart # << >> THEN cart[1].flavor
                    ELSE Get(d, "flavor", Plain("Unknown")),
         sauce |-> IF cart # << >> THEN cart[1].sauce
                   ELSE Get(d, "sauce", Plain("Unknown")),
         quantity |-> IF cart # << >> THEN Get(d, "total_quantity", 0) ELSE 1]

\* What became of the image: "uploaded" (upload_payment_receipt returned a
\* URL), "moved" (it returned nothing, the temp file was moved to the local
\* directory), "fallback" (the first block raised, the second download
\* worked), "lost" (the second download raised too: the exception leaves
\* the handler).
ImageOutcomes == {"uploaded", "moved", "fallback", "lost"}
\* What became of the order: the logging block raised before the insert,
\* create_delivery_order returned False, or it returned True.
LogOutcomes == {"raised", "failed", "inserted"}

\* A variant that keeps the reference the failed upload returned (none).
receive_payment_screenshot_no_fallback(d, here, image, logged) ==
    IF image = "lost" THEN Res(d, here, Say("image_not_stored"))
    ELSE IF logged = "raised"
    THEN Res(EmptyUD, END, SayRef("error_processing_order", Get(d, "order_id", 0)))
    ELSE LET screenshot_url ==
                 IF image = "uploaded" THEN "https://storage/payment.jpg" ELSE ""
             rec == order_data(d, screenshot_url)
         IN  Res(EmptyUD, END,
                 IF logged = "inserted"
                 THEN [msg |-> "order_complete", kb |-> << >>, order |-> rec]
                 ELSE Say("order_not_logged"))

\* here: the state the photo arrived in.
receive_payment_screenshot(d, here, image, logged) ==
    IF image = "lost" THEN Res(d, here, Say("image_not_stored"))
    ELSE IF logged = "raised"
    THEN Res(EmptyUD, END, SayRef("error_processing_order", Get(d, "order_id", 0)))
    ELSE LET screenshot_url ==
                 IF image = "uploaded"
                 THEN "https://storage/payment.jpg"
                 ELSE "data/payment_screenshots/order.jpg"
             rec == order_data(d, screenshot_url)
         IN  Res(EmptyUD, END,
                 IF logged = "inserted"
                 THEN [msg |-> "order_complete", kb |-> << >>, order |-> rec]
                 ELSE Say("order_not_logged"))

prompt_for_payment_photo(d, text) ==
    IF text = CANCEL_ORDER_BUTTON_TEXT THEN cancel_payment(d)
    ELSE IF text = RESTART_ORDER_BUTTON_TEXT
    THEN Res(EmptyUD, END, Say("order_restarted"))
    ELSE Res(d, AWAITING_SCREENSHOT, Say("upload_photo_please"))

\* handle_button never changes a conversation state.
handle_button(d, text) ==
    IF text \in {START_OVER_BUTTON_TEXT, RESTART_ORDER_BUTTON_TEXT}
    THEN [ud |-> EmptyUD, out |-> Say("welcome")]
    ELSE IF text = CANCEL_ORDER_BUTTON_TEXT
    THEN [ud |-> EmptyUD, out |-> Say("order_cancelled_welcome")]
    ELSE IF text \in {HELP_BUTTON_TEXT, SHOW_MENU_BUTTON_TEXT,
                      SHOW_DELIVERIES_BUTTON_TEXT}
    THEN [ud |-> d, out |-> Say("info")]
    ELSE [ud |-> d, out |-> NoOut]

\* ------------------------------------------------------------- inputs
\* Sequences of distinct session ids: what the directory can list.
ActiveLists ==
    {a \in UNION {[1 .. n -> SessionIds] : n \in 0 .. MaxSessions} :
        \A i, j \in DOMAIN a : i # j => a[i] # a[j]}
\* The row of a session at lookup time.
RowStates == {"missing", "open", "closed"}

ShortText == "A"
NameText == "Bobby"
PhoneText == "91234567"
NameTexts ==
    {CANCEL_ORDER_BUTTON_TEXT, RESTART_ORDER_BUTTON_TEXT, ShortText, NameText}
PhoneTexts ==
    {CANCEL_ORDER_BUTTON_TEXT, RESTART_ORDER_BUTTON_TEXT, NameText, PhoneText}
PaymentTexts ==
    {CANCEL_ORDER_BUTTON_TEXT, RESTART_ORDER_BUTTON_TEXT, NameText}
\* Texts that reach the handlers registered after ORDER_FLOW.
ButtonTexts ==
    {HELP_BUTTON_TEXT, START_OVER_BUTTON_TEXT, SHOW_MENU_BUTTON_TEXT,
     SHOW_DELIVERIES_BUTTON_TEXT, RESTART_ORDER_BUTTON_TEXT,
     CANCEL_ORDER_BUTTON_TEXT}
StoredProfile == [name |-> NameText, handle |-> Handle, phone |-> PhoneText]

\* States of ORDER_FLOW whose handlers take callback queries only.
ButtonStages ==
    {SELECT_DELIVERY, MENU_SELECTION, QUANTITY, ADD_MORE_ITEMS, CONFIRM}

\* ------------------------------------------------- several conversations
\* ORDER_FLOW keeps one conversation state per (chat, user); the library
\* keeps one context.user_data dictionary per user.  The pairs are two users
\* in chat 1 and user 1 in chat 2 as well.
Chats == {1, 2}
Users == {1, 2}
Pairs == (Chats \X Users) \ {<<2, 2>>}
NoPair == <<0, 0>>

\* convStage: the state of ORDER_FLOW per pair; userData: the dictionary per
\* user; clock: the second the wall clock shows; actor is history: the pair
\* whose event was handled last.
VARIABLES convStage, userData, clock, actor

pairVars == <<convStage, userData, clock, actor>>

PairsIdle ==
    /\ convStage = [p \in Pairs |-> END]
    /\ userData = [u \in Users |-> EmptyUD]
    /\ clock = 1
    /\ actor = NoPair

Init ==
    /\ stage = END
    /\ payStage = END
    /\ ud = EmptyUD
    /\ supaUser \in {NoProfile, StoredProfile}
    /\ localUser \in {NoProfile, StoredProfile}
    /\ out = NoOut
    /\ picked = NoValue
    /\ PairsIdle

Apply(r) == ud' = r.ud /\ stage' = r.stage /\ out' = r.out
\* No pass through the menu is under way.
NoPass == picked' = NoValue

\* /order or the Order Now text; allow_reentry accepts it in every state.
StartOrder ==
    /\ \E raw \in RawMenus, active \in ActiveLists :
          Apply(start_order(ud, raw, active))
    /\ NoPass
    /\ UNCHANGED <<payStage, stores>>
    /\ UNCHANGED pairVars

SelectDelivery ==
    /\ stage = SELECT_DELIVERY
    /\ \E data \in AllButtons, row \in RowStates, raw \in RawMenus :
          Apply(select_delivery(ud, data, row, supaUser, localUser, raw))
    /\ NoPass
    /\ UNCHANGED <<payStage, stores>>
    /\ UNCHANGED pairVars

RegisterName ==
    /\ stage = REGISTER_NAME
    /\ \E text \in NameTexts : Apply(register_name(ud, text))
    /\ NoPass
    /\ UNCHANGED <<payStage, stores>>
    /\ UNCHANGED pairVars

\* create_or_update_user and write_json both swallow their failures.
RegisterPhone ==
    /\ stage = REGISTER_PHONE
    /\ \E text \in PhoneTexts, raw \in RawMenus, db_ok \in BOOLEAN,
          file_ok \in BOOLEAN :
          LET r == register_phone(ud, text, raw)
              saved == r.stage \in {MENU_SELECTION, QUANTITY}
          IN  /\ Apply(r)
              /\ supaUser' = IF saved /\ db_ok THEN r.ud.user_info ELSE supaUser
              /\ localUser' = IF saved /\ file_ok THEN r.ud.user_info ELSE localUser
    /\ NoPass
    /\ UNCHANGED payStage
    /\ UNCHANGED pairVars

\* picked follows the choice the handler accepted for group 0.
HandleMenuSelection ==
    /\ stage = MENU_SELECTION
    /\ \E data \in AllButtons, raw \in RawMenus :
          LET r == handle_menu_selection(ud, data, raw)
              accepted == r.out.msg \in {"menu_option", "select_quantity"}
          IN  /\ Apply(r)
              /\ picked' = IF r.stage = END THEN NoValue
                            ELSE IF accepted /\ data.a = 0
                            THEN r.ud.menu_choices[0]
                            ELSE picked
    /\ UNCHANGED <<payStage, stores>>
    /\ UNCHANGED pairVars

SelectQuantity ==
    /\ stage = QUANTITY
    /\ \E data \in AllButtons, raw \in RawMenus :
          LET r == select_quantity(ud, data, raw)
          IN  /\ data.t = "qty" => Len(Get(ud, "cart", << >>)) < MaxCart
              /\ Apply(r)
              /\ picked' = IF r.stage = QUANTITY THEN picked ELSE NoValue
    /\ UNCHANGED <<payStage, stores>>
    /\ UNCHANGED pairVars

HandleAddMoreItems ==
    /\ stage = ADD_MORE_ITEMS
    /\ \E data \in AllButtons, raw \in RawMenus :
          Apply(handle_add_more_items(ud, data, raw))
    /\ NoPass
    /\ UNCHANGED <<payStage, stores>>
    /\ UNCHANGED pairVars

ConfirmOrder ==
    /\ stage = CONFIRM
    /\ \E data \in AllButtons, now \in ClockValues :
          Apply(confirm_order(ud, data, now))
    /\ NoPass
    /\ UNCHANGED <<payStage, stores>>
    /\ UNCHANGED pairVars

RequestPaymentScreenshot ==
    /\ stage = PAYMENT
    /\ \E text \in PaymentTexts : Apply(request_payment_screenshot(ud, text))
    /\ NoPass
    /\ UNCHANGED <<payStage, stores>>
    /\ UNCHANGED pairVars

\* A photo while ORDER_FLOW is in PAYMENT.
ReceivePaymentScreenshot ==
    /\ stage = PAYMENT
    /\ \E image \in ImageOutcomes, logged \in LogOutcomes, user_ok \in BOOLEAN :
          LET r == receive_payment_screenshot(ud, PAYMENT, image, logged)
          IN  /\ Apply(r)
              /\ supaUser' = IF r.stage = END /\ logged # "raised" /\ user_ok
                             THEN payment_profile(ud) ELSE supaUser
    /\ NoPass
    /\ UNCHANGED <<payStage, localUser>>
    /\ UNCHANGED pairVars

\* /cancel: the fallback of ORDER_FLOW.
CancelCommand ==
    /\ stage # END
    /\ Apply(cancel_order(ud))
    /\ NoPass
    /\ UNCHANGED <<payStage, stores>>
    /\ UNCHANGED pairVars

\* conversation_timeout: the state becomes END, no handler runs.
Timeout ==
    /\ stage # END
    /\ stage' = END
    /\ out' = NoOut
    /\ NoPass
    /\ UNCHANGED <<ud, payStage, stores>>
    /\ UNCHANGED pairVars

\* A keyboard text no conversation handler takes.
HandleButton ==
    /\ stage \in ButtonStages \cup {END}
    /\ payStage = END
    /\ \E text \in ButtonTexts :
          LET r == handle_button(ud, text)
          IN  ud' = r.ud /\ out' = r.out
    /\ UNCHANGED <<stage, payStage, stores, picked>>
    /\ UNCHANGED pairVars

\* /payment: the entry point of PAYMENT_FLOW.
PaymentCommand ==
    /\ payStage = END
    /\ payStage' = AWAITING_SCREENSHOT
    /\ out' = Say("payment_required")
    /\ UNCHANGED <<stage, ud, stores, picked>>
    /\ UNCHANGED pairVars

\* A text that ORDER_FLOW does not take while PAYMENT_FLOW waits for a photo.
PaymentFlowText ==
    /\ stage \in ButtonStages \cup {END}
    /\ payStage = AWAITING_SCREENSHOT
    /\ \E text \in PaymentTexts :
          LET r == prompt_for_payment_photo(ud, text)
          IN  ud' = r.ud /\ payStage' = r.stage /\ out' = r.out
    /\ UNCHANGED <<stage, stores, picked>>
    /\ UNCHANGED pairVars

\* A photo that ORDER_FLOW does not take while PAYMENT_FLOW waits for one.
PaymentFlowPhoto ==
    /\ stage # PAYMENT
    /\ payStage = AWAITING_SCREENSHOT
    /\ \E image \in ImageOutcomes, logged \in LogOutcomes, user_ok \in BOOLEAN :
          LET r == receive_payment_screenshot(ud, AWAITING_SCREENSHOT, image,
                                              logged)
          IN  /\ ud' = r.ud /\ payStage' = r.stage /\ out' = r.out
              /\ supaUser' = IF r.stage = END /\ logged # "raised" /\ user_ok
                             THEN payment_profile(ud) ELSE supaUser
    /\ UNCHANGED <<stage, localUser, picked>>
    /\ UNCHANGED pairVars

\* /cancel while ORDER_FLOW is idle: the fallback of PAYMENT_FLOW.
PaymentFlowCancel ==
    /\ stage = END
    /\ payStage = AWAITING_SCREENSHOT
    /\ LET r == cancel_payment(ud)
       IN  ud' = r.ud /\ payStage' = r.stage /\ out' = r.out
    /\ UNCHANGED <<stage, stores, picked>>
    /\ UNCHANGED pairVars

Next ==
    \/ StartOrder
    \/ SelectDelivery
    \/ RegisterName
    \/ RegisterPhone
    \/ HandleMenuSelection
    \/ SelectQuantity
    \/ HandleAddMoreItems
    \/ ConfirmOrder
    \/ RequestPaymentScreenshot
    \/ ReceivePaymentScreenshot
    \/ CancelCommand
    \/ Timeout
    \/ HandleButton
    \/ PaymentCommand
    \/ PaymentFlowText
    \/ PaymentFlowPhoto
    \/ PaymentFlowCancel

Spec == Init /\ [][Next]_vars

\* ------------------------------------- specification of several conversations
\* Every user has a stored profile, the directory lists session 1, and the
\* events are /order, /cancel, a button of the keyboard that the stage
\* shows, a photo and the timeout.
\* The menu setting holds no option: the provider returns its default group.
PairMenus == {MenuNoOptions}
StageButtons(s) ==
    IF s = SELECT_DELIVERY THEN {DeliveryBtn(1), CancelBtn}
    ELSE IF s = MENU_SELECTION
    THEN {MenuBtn(0, 0), CancelBtn}
    ELSE IF s = QUANTITY THEN {QtyBtn(1), CancelBtn}
    ELSE IF s = ADD_MORE_ITEMS
    THEN {Btn("add_more", 0, 0), Btn("proceed_payment", 0, 0), CancelBtn}
    ELSE IF s = CONFIRM THEN {Btn("confirm", 0, 0), CancelBtn}
    ELSE {}

PairApply(p, r) ==
    /\ convStage' = [convStage EXCEPT ![p] = r.stage]
    /\ userData' = [userData EXCEPT ![p[2]] = r.ud]
    /\ actor' = p

InitPairs ==
    /\ stage = END /\ payStage = END /\ ud = EmptyUD
    /\ supaUser = StoredProfile /\ localUser = NoProfile
    /\ out = NoOut /\ picked = NoValue
    /\ PairsIdle

PairStartOrder ==
    /\ \E p \in Pairs, raw \in PairMenus :
          PairApply(p, start_order(userData[p[2]], raw, <<1>>))
    /\ UNCHANGED <<clock, vars>>

PairSelectDelivery ==
    /\ \E p \in Pairs, data \in StageButtons(SELECT_DELIVERY), raw \in PairMenus :
          /\ convStage[p] = SELECT_DELIVERY
          /\ PairApply(p, select_delivery(userData[p[2]], data, "open",
                                          supaUser, localUser, raw))
    /\ UNCHANGED <<clock, vars>>

PairHandleMenuSelection ==
    /\ \E p \in Pairs, data \in StageButtons(MENU_SELECTION), raw \in PairMenus :
          /\ convStage[p] = MENU_SELECTION
          /\ PairApply(p, handle_menu_selection(userData[p[2]], data, raw))
    /\ UNCHANGED <<clock, vars>>

PairSelectQuantity ==
    /\ \E p \in Pairs, data \in StageButtons(QUANTITY), raw \in PairMenus :
          /\ convStage[p] = QUANTITY
          /\ data.t = "qty" => Len(Get(userData[p[2]], "cart", << >>)) < MaxCart
          /\ PairApply(p, select_quantity(userData[p[2]], data, raw))
    /\ UNCHANGED <<clock, vars>>

PairHandleAddMoreItems ==
    /\ \E p \in Pairs, data \in StageButtons(ADD_MORE_ITEMS), raw \in PairMenus :
          /\ convStage[p] = ADD_MORE_ITEMS
          /\ PairApply(p, handle_add_more_items(userData[p[2]], data, raw))
    /\ UNCHANGED <<clock, vars>>

\* generate_delivery_id reads the wall clock.
PairConfirmOrder ==
    /\ \E p \in Pairs, data \in StageButtons(CONFIRM) :
          /\ convStage[p] = CONFIRM
          /\ PairApply(p, confirm_order(userData[p[2]], data, clock))
    /\ UNCHANGED <<clock, vars>>

PairReceivePaymentScreenshot ==
    /\ \E p \in Pairs, image \in ImageOutcomes, logged \in LogOutcomes :
          /\ convStage[p] = PAYMENT
          /\ PairApply(p, receive_payment_screenshot(userData[p[2]], PAYMENT,
                                                     image, logged))
    /\ UNCHANGED <<clock, vars>>

PairCancelCommand ==
    /\ \E p \in Pairs :
          /\ convStage[p] # END
          /\ PairApply(p, cancel_order(userData[p[2]]))
    /\ UNCHANGED <<clock, vars>>

\* conversation_timeout of the conversation of pair p.
PairTimeoutOf(p) ==
    /\ convStage[p] # END
    /\ convStage' = [convStage EXCEPT ![p] = END]
    /\ actor' = p
    /\ UNCHANGED <<userData, clock, vars>>

PairTimeout ==
    \E p \in Pairs : PairTimeoutOf(p)

\* A second passes.
Tick ==
    /\ clock < MaxClock
    /\ clock' = clock + 1
    /\ actor' = NoPair
    /\ UNCHANGED <<convStage, userData, vars>>

NextPairs ==
    \/ PairStartOrder
    \/ PairSelectDelivery
    \/ PairHandleMenuSelection
    \/ PairSelectQuantity
    \/ PairHandleAddMoreItems
    \/ PairConfirmOrder
    \/ PairReceivePaymentScreenshot
    \/ PairCancelCommand
    \/ PairTimeout
    \/ Tick

SpecPairs == InitPairs /\ [][NextPairs]_pairVars

\* The timeout job of a conversation runs 600 s after its last update: a
\* conversation that stays open is at some point left alone for that long,
\* and then ended.
SpecPairsFair ==
    /\ InitPairs
    /\ [][NextPairs]_pairVars
    /\ \A p \in Pairs : WF_pairVars(PairTimeoutOf(p))

\* ---------------------------------------------------------- properties
Last(seq) == seq[Len(seq)]

\* What the customer is told when a cancel was handled.
CancelOutcomes ==
    {"cancelled_inline", "order_cancelled", "payment_cancelled",
     "order_cancelled_welcome"}

\* C1: once an explicit cancel was handled (an inline Cancel button, the
\* /cancel command or the cancel-order keyword), the conversation is idle
\* and the dictionary has no key.
C1_CancelLeavesNothing ==
    out.msg \in CancelOutcomes => stage = END /\ ud.keys = {}

\* How a run of receive_payment_screenshot on a photo can end.
IntakeOutcomes ==
    {"order_complete", "order_not_logged", "error_processing_order",
     "image_not_stored"}

\* C2: every way a photo received in PAYMENT leaves the intake handler (the
\* order logged, the insert refused, an exception while storing the image or
\* building the record) ends with an empty dictionary and an idle
\* conversation.
C2_IntakeExitClears ==
    [][stage = PAYMENT /\ out'.msg \in IntakeOutcomes
           => stage' = END /\ ud'.keys = {}]_vars

RECURSIVE SumTo(_, _, _)
SumTo(items, field, n) ==
    IF n = 0 THEN 0 ELSE SumTo(items, field, n - 1) + items[n][field]

\* C3: whenever the dictionary holds a cart, total_price is the sum of the
\* items' item_total and total_quantity the sum of their quantities; and a
\* quantity q chosen in QUANTITY appends one item and raises total_price by
\* q times the item's unit price and total_quantity by q.
C3_CartTotals ==
    /\ Has(ud, "cart") =>
          /\ Has(ud, "total_price") /\ Has(ud, "total_quantity")
          /\ ud.total_price = SumTo(ud.cart, "item_total", Len(ud.cart))
          /\ ud.total_quantity = SumTo(ud.cart, "quantity", Len(ud.cart))
    /\ stage = QUANTITY =>
          \A q \in Quantities, raw \in RawMenus :
              LET r == select_quantity(ud, QtyBtn(q), raw)
                  old == Get(ud, "cart", << >>)
                  item == Last(r.ud.cart)
              IN  /\ Len(r.ud.cart) = Len(old) + 1
                  /\ \A i \in 1 .. Len(old) : r.ud.cart[i] = old[i]
                  /\ item.quantity = q
                  /\ r.ud.total_price
                         = Get(ud, "total_price", 0) + q * item.unit_price
                  /\ r.ud.total_quantity = Get(ud, "total_quantity", 0) + q

\* C3 witness: a cart of two items with different unit prices, three bowls.
C3_Witness ==
    /\ Has(ud, "cart") /\ Len(ud.cart) = 2
    /\ ud.cart[1].unit_price # ud.cart[2].unit_price
    /\ ud.cart[2].unit_price > 0
    /\ ud.total_quantity = 3
    /\ stage = ADD_MORE_ITEMS

\* The pass through the menu is complete: every group of the snapshot has a
\* choice and the quantity prompt was just shown.
PassComplete ==
    /\ stage = QUANTITY /\ out.msg = "select_quantity"
    /\ Get(ud, "menu_groups", << >>) # << >>
    /\ Has(ud, "menu_choices")
    /\ DOMAIN ud.menu_choices = 0 .. Len(ud.menu_groups) - 1

\* "Title: value" of the groups after the first, joined by "; ".
ExpectedSauce(d) ==
    Join([i \in 1 .. Len(d.menu_groups) - 1 |->
             d.menu_groups[i + 1].title \o ": " \o d.menu_choices[i].name],
         "; ")

\* C4: after a complete pass the derived flavor is the name of the option
\* chosen in group 0 (a plain string also for a priced option), the derived
\* sauce is the "; "-join of "Title: value" of the other groups (the empty
\* string for a one-group menu), and the item appended in QUANTITY carries
\* both.
C4_DerivedFlavorAndSauce ==
    PassComplete =>
        /\ ud.flavor = Plain(ud.menu_choices[0].name)
        /\ ud.sauce = Plain(ExpectedSauce(ud))
        /\ \A q \in Quantities, raw \in RawMenus :
               LET item == Last(select_quantity(ud, QtyBtn(q), raw).ud.cart)
               IN  /\ item.flavor = Plain(ud.menu_choices[0].name)
                   /\ item.sauce = Plain(ExpectedSauce(ud))

\* The customer is being asked for the group at the cursor, after having
\* chosen for every group before it, in order, since cursor 0.
InTraversal ==
    /\ stage = MENU_SELECTION
    /\ Get(ud, "menu_groups", << >>) # << >>
    /\ Has(ud, "menu_index") /\ Has(ud, "menu_choices")
    /\ ud.menu_index < Len(ud.menu_groups)
    /\ DOMAIN ud.menu_choices = 0 .. ud.menu_index - 1

\* C5: in a traversal that started at cursor 0, a valid choice for the
\* prompted group records that choice and advances the cursor by one; the
\* stage stays MENU_SELECTION while groups remain and becomes QUANTITY on the
\* choice for the last of the N groups, with cursor N and exactly the N
\* entries 0..N-1 in the selection map.
C5_TraversalReachesQuantity ==
    InTraversal =>
        LET N == Len(ud.menu_groups)
            c == ud.menu_index
            options == ud.menu_groups[c + 1].options
        IN  \A o \in 1 .. Len(options), raw \in RawMenus :
                LET r == handle_menu_selection(ud, MenuBtn(c, o - 1), raw)
                IN  /\ r.ud.menu_index = c + 1
                    /\ DOMAIN r.ud.menu_choices = 0 .. c
                    /\ r.ud.menu_choices[c] = options[o]
                    /\ \A i \in 0 .. c - 1 :
                           r.ud.menu_choices[i] = ud.menu_choices[i]
                    /\ IF c + 1 < N
                       THEN r.stage = MENU_SELECTION
                       ELSE /\ r.stage = QUANTITY
                            /\ r.ud.menu_index = N
                            /\ Cardinality(DOMAIN r.ud.menu_choices) = N

\* C5 witness: QUANTITY reached through both groups of a two-group menu.
C5_Witness ==
    /\ stage = QUANTITY /\ out.msg = "select_quantity"
    /\ Len(Get(ud, "menu_groups", << >>)) = 2
    /\ Has(ud, "menu_choices") /\ DOMAIN ud.menu_choices = {0, 1}
    /\ Get(ud, "menu_index", 0) = 2
    /\ picked = ud.menu_choices[0]

CartOf(d) == Get(d, "cart", << >>)

\* C6: "Add more" in ADD_MORE_ITEMS sets the cursor to 0, empties the
\* selection map and enters MENU_SELECTION with the prompt of group 0, the
\* cart staying as it was; and while the conversation stays in the add-more
\* cycle the cart never gets shorter.
C6_AddMoreKeepsCart ==
    [][/\ (stage = ADD_MORE_ITEMS /\ out'.msg \in {"menu_option", "select_quantity"})
           => /\ stage' = MENU_SELECTION
              /\ Get(ud', "menu_index", -1) = 0
              /\ Has(ud', "menu_choices") /\ ud'.menu_choices = EmptyMap
              /\ out'.kb = build_menu_keyboard(ud'.menu_groups[1], 0)
              /\ Has(ud, "cart") /\ Has(ud', "cart") /\ ud'.cart = ud.cart
       /\ (/\ stage \in {MENU_SELECTION, QUANTITY, ADD_MORE_ITEMS}
           /\ stage' \in {MENU_SELECTION, QUANTITY, ADD_MORE_ITEMS})
           => Len(CartOf(ud')) >= Len(CartOf(ud))]_vars

\* C7: when the customer chose a group-0 option in this pass, the item that
\* a quantity q appends in QUANTITY has that option's price as unit_price (0
\* for an option without a price), quantity q and item_total q times the
\* price.
C7_ItemPricedFromChoice ==
    stage = QUANTITY /\ picked # NoValue =>
        \A q \in Quantities, raw \in RawMenus :
            LET r == select_quantity(ud, QtyBtn(q), raw)
                item == Last(r.ud.cart)
            IN  /\ r.stage = ADD_MORE_ITEMS
                /\ Len(r.ud.cart) = Len(CartOf(ud)) + 1
                /\ item.unit_price = picked.price
                /\ item.quantity = q
                /\ item.item_total = q * picked.price

\* The keyboard start_order has to show for a list of sessions.
OneChoicePerSession(kb, active) ==
    /\ Len(kb) = Len(active) + 1
    /\ \A i \in 1 .. Len(active) : kb[i] = DeliveryBtn(active[i])
    /\ kb[Len(kb)] = CancelBtn

KeyboardMatchesDirectory ==
    \A raw \in RawMenus, active \in ActiveLists \ {<< >>} :
        LET r == start_order(ud, raw, active)
        IN  r.stage = SELECT_DELIVERY /\ OneChoicePerSession(r.out.kb, active)

\* C8 as stated: for every non-empty list of active sessions start_order
\* shows one choice per session in the directory's order and one cancel
\* choice, and selecting the choice of session i stores session i as the
\* delivery.
C8_Original ==
    /\ KeyboardMatchesDirectory
    /\ stage = SELECT_DELIVERY /\ out.msg = "select_delivery" =>
          \A i \in 1 .. Len(out.kb) - 1, row \in RowStates, raw \in RawMenus :
              LET r == select_delivery(ud, out.kb[i], row, supaUser,
                                       localUser, raw)
              IN  Has(r.ud, "delivery") /\ r.ud.delivery.id = out.kb[i].a

\* C8 amended: for every non-empty list of active sessions start_order
\* shows one choice per session in the directory's order and one cancel
\* choice; selecting the choice of session i stores session i as the
\* delivery when the lookup still finds that session, and otherwise stores
\* no delivery and ends the conversation.
C8_ChoiceStoresFoundSession ==
    /\ KeyboardMatchesDirectory
    /\ stage = SELECT_DELIVERY /\ out.msg = "select_delivery" =>
          \A i \in 1 .. Len(out.kb) - 1, row \in RowStates, raw \in RawMenus :
              LET r == select_delivery(ud, out.kb[i], row, supaUser,
                                       localUser, raw)
              IN  IF row # "missing"
                  THEN Has(r.ud, "delivery") /\ r.ud.delivery.id = out.kb[i].a
                  ELSE ~Has(r.ud, "delivery") /\ r.stage = END

\* C8 witness: start_order has shown a directory that lists session 2 before
\* session 1.
C8_Witness ==
    /\ stage = SELECT_DELIVERY /\ out.msg = "select_delivery"
    /\ out.kb = <<DeliveryBtn(2), DeliveryBtn(1), CancelBtn>>

HasProfile == supaUser # NoProfile \/ localUser # NoProfile
\* What select_delivery tells the customer once the session was found.
SessionSelected == {"menu_option", "select_quantity", "ask_name"}

C10_NoSessionLeavesNothing ==
    out.msg = "no_active_sessions" => stage = END /\ ud.keys = {}

\* What start_order tells the customer.
StartOutcomes == {"no_active_sessions", "select_delivery"}
\* Fields that only an order under way puts into the dictionary.
OrderKeys ==
    {"delivery", "user_info", "name", "menu_index", "menu_choices",
     "menu_selections", "main_option_price", "flavor", "sauce", "cart",
     "total_price", "total_quantity", "order_id"}

\* C11: an order started in any stage and over any leftover dictionary
\* leaves the dictionary, the stage and the reply that the same start leaves
\* over an empty dictionary with the same directory and menu contents; no
\* field of the earlier conversation survives.
C11_StartIgnoresLeftovers ==
    /\ \A raw \in RawMenus, active \in ActiveLists :
           start_order(ud, raw, active) = start_order(EmptyUD, raw, active)
    /\ out.msg \in StartOutcomes =>
           /\ \E raw \in RawMenus, active \in ActiveLists :
                  Res(ud, stage, out) = start_order(EmptyUD, raw, active)
           /\ ud.keys \cap OrderKeys = {}
           /\ \A k \in OrderKeys : ud[k] = EmptyUD[k]

\* C11 witness: the conversation is idle after an inline cancel that left
\* the delivery, the profile, the selections and a cart of two items in the
\* dictionary; the next event can start an order.
C11_Witness ==
    /\ stage = END /\ out.msg = "cancelled_inline"
    /\ {"delivery", "user_info", "cart", "menu_choices"} \subseteq ud.keys
    /\ Len(ud.cart) = 2

\* The image outcomes in which the upload to remote storage failed and the
\* image was still stored.
UploadFailed == {"moved", "fallback"}
\* A photo is awaited by ORDER_FLOW or by PAYMENT_FLOW.
AwaitingPhoto == stage = PAYMENT \/ payStage = AWAITING_SCREENSHOT
PhotoStage == IF stage = PAYMENT THEN PAYMENT ELSE AWAITING_SCREENSHOT

\* C12: when the upload of the payment image fails (the store returns
\* nothing or raises) the local path is the screenshot reference, and the
\* delivery order that is then inserted has a non-empty
\* payment_screenshot_url and payment_status "submitted"; so has every order
\* the last handler inserted.
C12_FallbackRecordHasScreenshot ==
    /\ AwaitingPhoto =>
          \A image \in UploadFailed :
              LET r == receive_payment_screenshot(ud, PhotoStage, image, "inserted")
              IN  /\ r.out.msg = "order_complete"
                  /\ r.out.order.payment_screenshot_url
                         = "data/payment_screenshots/order.jpg"
                  /\ r.out.order.payment_status = "submitted"
    /\ out.msg = "order_complete" =>
          /\ out.order.payment_screenshot_url # ""
          /\ out.order.payment_status = "submitted"

\* C12 witness: an order with a cart was inserted with the local path as
\* its screenshot reference.
C12_Witness ==
    /\ out.msg = "order_complete" /\ stage = END
    /\ out.order.payment_screenshot_url = "data/payment_screenshots/order.jpg"
    /\ out.order.items # << >> /\ out.order.order_id > 0

\* What the customer is told when the order could not be created.
CreationFailed == {"order_not_logged", "error_processing_order"}

\* C13: whenever the creation of the order failed during payment intake
\* (create_delivery_order returned failure or the logging block raised), the
\* apology sent to the customer quotes the order id.
C13_FailureQuotesOrderId ==
    out.msg \in CreationFailed => out.order # NoOrder

\* C14: when the inactivity timeout ends a conversation that was in a
\* non-terminal stage (the stage becomes END and no handler replies), the
\* dictionary has no key afterwards.
C14_TimeoutDiscardsContext ==
    [][stage # END /\ stage' = END /\ out' = NoOut => ud'.keys = {}]_vars

\* C15: the order ids that confirmations of different users' conversations
\* generated are distinct, also when both confirmed at the same clock value.
C15_OrderIdsDistinct ==
    \A u \in Users, v \in Users :
        /\ u # v
        /\ Has(userData[u], "order_id") /\ Has(userData[v], "order_id")
        => userData[u].order_id # userData[v].order_id

\* The dictionary that the handlers of a pair's conversation work on.
ContextOf(p) == userData[p[2]]

\* C16: the event handled for one (chat, user) pair leaves the context of
\* every other pair whose conversation is under way as it was.
C16_ContextOwnedByPair ==
    [][\A q \in Pairs :
           q # actor' /\ convStage[q] # END => ContextOf(q)' = ContextOf(q)]_pairVars

\* Every group of the snapshot has a choice.
AllGroupsChosen(d) ==
    /\ Get(d, "menu_groups", << >>) # << >>
    /\ Has(d, "menu_choices")
    /\ DOMAIN d.menu_choices = 0 .. Len(d.menu_groups) - 1

\* C17: a stage is entered only along the edges of the graph: QUANTITY only
\* from MENU_SELECTION when every group has a choice, ADD_MORE_ITEMS only
\* from QUANTITY with one more item in the cart, CONFIRM only from
\* ADD_MORE_ITEMS, PAYMENT only from CONFIRM, MENU_SELECTION only from
\* SELECT_DELIVERY, REGISTER_PHONE or ADD_MORE_ITEMS, REGISTER_NAME only from
\* SELECT_DELIVERY and REGISTER_PHONE only from REGISTER_NAME.
C17_TransitionsFollowGraph ==
    [][/\ (stage' = QUANTITY /\ stage # QUANTITY)
              => stage = MENU_SELECTION /\ AllGroupsChosen(ud')
       /\ (stage' = ADD_MORE_ITEMS /\ stage # ADD_MORE_ITEMS)
              => /\ stage = QUANTITY
                 /\ Len(CartOf(ud')) = Len(CartOf(ud)) + 1
       /\ (stage' = CONFIRM /\ stage # CONFIRM) => stage = ADD_MORE_ITEMS
       /\ (stage' = PAYMENT /\ stage # PAYMENT) => stage = CONFIRM
       /\ (stage' = MENU_SELECTION /\ stage # MENU_SELECTION)
              => stage \in {SELECT_DELIVERY, REGISTER_PHONE, ADD_MORE_ITEMS}
       /\ (stage' = REGISTER_NAME /\ stage # REGISTER_NAME)
              => stage = SELECT_DELIVERY
       /\ (stage' = REGISTER_PHONE /\ stage # REGISTER_PHONE)
              => stage = REGISTER_NAME]_vars

\* C18: in CONFIRM only the confirm choice generates an order id and enters
\* PAYMENT; any other button event leaves the dictionary without an order
\* id and the stage out of PAYMENT.
C18_OnlyConfirmEntersPayment ==
    stage = CONFIRM =>
        \A data \in AllButtons, now \in ClockValues :
            LET r == confirm_order(ud, data, now)
            IN  IF data = Btn("confirm", 0, 0)
                THEN r.stage = PAYMENT /\ Has(r.ud, "order_id")
                ELSE r.stage # PAYMENT /\ ~Has(r.ud, "order_id")

\* The replies of handle_menu_selection to a choice it accepted.
ChoiceAccepted == {"menu_option", "select_quantity"}

\* C19: whichever menu button arrives in MENU_SELECTION, a choice that is
\* accepted is recorded for the group at the cursor and moves the cursor on
\* by exactly one.
C19_CursorAdvancesByOne ==
    stage = MENU_SELECTION /\ Has(ud, "menu_index") =>
        \A data \in MenuButtons, raw \in RawMenus :
            LET r == handle_menu_selection(ud, data, raw)
            IN  r.out.msg \in ChoiceAccepted =>
                    /\ r.ud.menu_index = ud.menu_index + 1
                    /\ ud.menu_index \in DOMAIN r.ud.menu_choices
                    /\ \A i \in DOMAIN Get(ud, "menu_choices", EmptyMap) :
                           i # ud.menu_index =>
                               r.ud.menu_choices[i] = ud.menu_choices[i]

\* Group and option indices a button can name, beyond those of any menu.
MaxIndex == 2
\* The fields a refused menu event has to leave alone.
PassFields == {"menu_index", "menu_choices", "main_option_price", "flavor", "cart"}
SameFields(d, e) ==
    \A k \in PassFields : (Has(d, k) <=> Has(e, k)) /\ d[k] = e[k]
\* The button names a group or an option that the snapshot does not have.
NotInSnapshot(d, g, o) ==
    LET groups == Get(d, "menu_groups", << >>)
    IN  g >= Len(groups) \/ o >= Len(groups[g + 1].options)
\* The alerts of handle_menu_selection for such a button.
Refused == {"option_expired", "option_unavailable"}

\* C20: a menu button whose group index or option index is not in the
\* conversation's menu snapshot is answered with an alert, leaves the stage
\* at MENU_SELECTION and leaves the cursor, the selection map,
\* main_option_price, flavor and the cart as they were.
C20_StaleIndexChangesNothing ==
    /\ stage = MENU_SELECTION =>
          \A g \in 0 .. MaxIndex, o \in 0 .. MaxIndex, raw \in RawMenus :
              NotInSnapshot(ud, g, o) =>
                  LET r == handle_menu_selection(ud, MenuBtn(g, o), raw)
                  IN  /\ r.stage = MENU_SELECTION
                      /\ r.out.msg \in Refused
                      /\ SameFields(r.ud, ud)
    /\ out.msg \in Refused => stage = MENU_SELECTION

\* C20 witness: in the second pass of an order over the one-group menu, with
\* an item in the cart, a button of an option that the snapshot does not
\* have was refused.
C20_Witness ==
    /\ stage = MENU_SELECTION /\ out.msg = "option_unavailable"
    /\ Len(Get(ud, "menu_groups", << >>)) = 1
    /\ Len(CartOf(ud)) = 1 /\ Has(ud, "main_option_price")
    /\ Get(ud, "menu_index", -1) = 0

\* The states of a session's row in which the session is no longer on offer:
\* the row is gone, or it is closed or past its cutoff time.
NotOnOffer == {"missing", "closed"}

\* C21: in SELECT_DELIVERY the choice of a session that was removed, closed
\* or passed its cutoff after the list was shown ends the conversation with
\* the not-found reply and stores no delivery.
C21_GoneSessionIsNotFound ==
    stage = SELECT_DELIVERY =>
        \A i \in SessionIds, row \in NotOnOffer, raw \in RawMenus :
            LET r == select_delivery(ud, DeliveryBtn(i), row, supaUser,
                                     localUser, raw)
            IN  /\ r.stage = END
                /\ r.out.msg = "delivery_not_found"
                /\ ~Has(r.ud, "delivery")

\* The stages whose handlers take free text, and the control keywords.
TextStages == {REGISTER_NAME, REGISTER_PHONE, PAYMENT}
ControlTexts == {CANCEL_ORDER_BUTTON_TEXT, RESTART_ORDER_BUTTON_TEXT}
ControlReplies == {"order_cancelled", "payment_cancelled", "order_restarted"}
\* What the text handler of a stage does with a text.
TextHandler(s, d, text, raw) ==
    IF s = REGISTER_NAME THEN register_name(d, text)
    ELSE IF s = REGISTER_PHONE THEN register_phone(d, text, raw)
    ELSE request_payment_screenshot(d, text)

\* A step taken from a text stage: the keywords end the conversation, and a
\* step that answers with a control reply leaves the stores alone.
ControlTextStep ==
    stage \in TextStages =>
        /\ \A text \in ControlTexts, raw \in RawMenus :
               LET r == TextHandler(stage, ud, text, raw)
               IN  /\ r.stage = END /\ r.ud = EmptyUD
                   /\ r.out.msg \in ControlReplies
        /\ (out'.msg \in ControlReplies) =>
               /\ stage' = END /\ ud'.keys = {}
               /\ supaUser' = supaUser /\ localUser' = localUser
               /\ out'.order = NoOrder

\* C22: in REGISTER_NAME, REGISTER_PHONE and PAYMENT a text equal to the
\* cancel-order or restart-order keyword is answered with the cancel or
\* restart reply whatever its length, ends the conversation and empties the
\* dictionary; the step that handles it writes no profile and inserts no
\* order.
C22_ControlTextShortCircuits ==
    [][ControlTextStep]_vars

\* C22 witness: ORDER_FLOW handled the restart keyword in a text stage (the
\* reply is its own, PAYMENT_FLOW is still waiting) and no profile is
\* stored.
C22_Witness ==
    /\ out.msg = "order_restarted" /\ stage = END /\ ud.keys = {}
    /\ payStage = AWAITING_SCREENSHOT
    /\ supaUser = NoProfile /\ localUser = NoProfile


\* C23: an order record inserted by receive_payment_screenshot is
\* 'submitted' and 'confirmed', carries an order id that confirm_order
\* generated (not the 'unknown' default), a non-empty items list, and
\* total_price and total_quantity equal to the sums over those items.
C23_PersistedOrderMatchesCart ==
    out.msg = "order_complete" =>
        /\ out.order.payment_status = "submitted"
        /\ out.order.order_status = "confirmed"
        /\ out.order.order_id \in ClockValues
        /\ out.order.items # << >>
        /\ out.order.total_price
               = SumTo(out.order.items, "item_total", Len(out.order.items))
        /\ out.order.total_quantity
               = SumTo(out.order.items, "quantity", Len(out.order.items))


\* C24: an inserted order record with a non-empty items list has the
\* flavor, sauce and quantity of its first item in the legacy fields.
C24_LegacyFieldsFromFirstItem ==
    (out.msg = "order_complete" /\ out.order.items # << >>) =>
        /\ out.order.flavor = out.order.items[1].flavor
        /\ out.order.sauce = out.order.items[1].sauce
        /\ out.order.quantity = out.order.items[1].quantity


\* A step inserts an order record only from PAYMENT with a stored order id,
\* and a step of PAYMENT_FLOW leaves the dictionary of an order conversation
\* under way alone.
OrderOnlyAtIntake ==
    /\ (out'.msg = "order_complete") =>
           (stage = PAYMENT /\ Has(ud, "order_id") /\ stage' = END)
    /\ (payStage = AWAITING_SCREENSHOT /\ payStage' = END /\ stage' # END) =>
           ud' = ud

\* C25: an order record is inserted only in response to a photo received
\* while the order conversation is in PAYMENT with an order id stored, which
\* ends the conversation; the standalone /payment conversation neither
\* inserts an order nor clears the dictionary of an order under way.
C25_OrderOnlyAtIntake ==
    [][OrderOnlyAtIntake]_vars


\* A step from PAYMENT: both ways of cancelling run cancel_payment, and a
\* step answered by it ends the conversation with an empty dictionary and
\* inserts nothing; an inserted record carries the order id of the
\* dictionary it was built from, which the cancellation has emptied.
CancelInPaymentStep ==
    /\ stage = PAYMENT =>
           /\ Has(ud, "order_id")
           /\ request_payment_screenshot(ud, CANCEL_ORDER_BUTTON_TEXT)
                  = Res(EmptyUD, END, Say("payment_cancelled"))
           /\ cancel_order(ud) = Res(EmptyUD, END, Say("payment_cancelled"))
           /\ (out'.msg = "payment_cancelled") =>
                  (stage' = END /\ ud'.keys = {} /\ out'.order = NoOrder)
    /\ (out'.msg = "order_complete" /\ out' # out) =>
           out'.order.order_id = Get(ud, "order_id", 0)

WithinOrder ==
    stage # END /\ stage' # END /\ out'.msg \notin StartOutcomes

\* C27: between the start of an order and its end the menu_groups cached in
\* the dictionary stay what start_order cached, whatever menu the datastore
\* returns meanwhile.
C27_SnapshotNeverReplaced ==
    [][WithinOrder =>
           (Has(ud', "menu_groups") /\ ud'.menu_groups = ud.menu_groups)]_vars


\* C28: the groups that get_menu_groups returns to a handler are a
\* non-empty sequence in which every group has at least one option, for
\* every menu the datastore returns and also when the dictionary holds no
\* cached groups.
C28_GroupsNeverEmpty ==
    stage \in {MENU_SELECTION, QUANTITY, ADD_MORE_ITEMS} =>
        \A raw \in RawMenus :
            LET g == get_menu_groups(ud, raw).groups
            IN  /\ g # << >>
                /\ \A i \in 1 .. Len(g) : g[i].options # << >>


\* C29: from MENU_SELECTION on the dictionary holds the delivery session
\* and the profile, from ADD_MORE_ITEMS on the cart is non-empty, and the
\* dictionary is never empty while the conversation is under way.
C29_StageHasItsContext ==
    /\ stage \in {MENU_SELECTION, QUANTITY, ADD_MORE_ITEMS, CONFIRM, PAYMENT} =>
           (Has(ud, "delivery") /\ Has(ud, "user_info"))
    /\ stage \in {ADD_MORE_ITEMS, CONFIRM, PAYMENT} => CartOf(ud) # << >>
    /\ stage # END => ud.keys # {}

====
